---- MODULE Spec2Model ----
(***************************************************************************)
(* A model of package fileutils (LockDir, Lrename, SymlinkResolutionError, *)
(* ChownRecursiveFrom).  The three components share no state; each has its *)
(* own specification over its own variables, the others being left alone.  *)
(***************************************************************************)
EXTENDS Integers, Sequences, FiniteSets, TLC

VARIABLES
    \* ---- LockDir: the callers, their os.File handles and the kernel ----
    procOf,     \* the process each caller (goroutine/thread) runs in
    pc,         \* each caller's position in LockDir / in the unlock closure
    file,       \* the os.File f captured by each caller's unlock closure
    err,        \* what the caller's last call returned
    pending,    \* the error held by unlock between line 177 and line 179
    calls,      \* how often the current unlock closure has been called
    fdtable,    \* per process: descriptor number -> open file description
    lockOf,     \* flock state of each open file description
    lockFile,   \* whether D/.lock exists
    cycles,     \* completed clean acquire/release cycles on D, counted up to 2
    \* ---- Lrename: one call and the directory it works in ----
    fs,         \* the directory: path -> entry (none, file, dir, link)
    fs0,        \* the directory as it was when Lrename was called
    oldPath,    \* Lrename's parameter oldPath
    dstPath,    \* the destination Lrename was called with
    newPath,    \* Lrename's parameter newPath, reassigned at line 154
    rpc,        \* the call's position
    lstatRes,   \* what os.Lstat(newPath) reported
    evalRes,    \* what filepath.EvalSymlinks(newPath) returned, if called
    renameArg,  \* the destination os.Rename was called with, if called
    fsAtRename, \* the directory as it was when os.Rename was called, if called
    rerr,       \* the error Lrename returned
    \* ---- SymlinkResolutionError.Is: one call ----
    isRecv,     \* the receiver e
    isTarget,   \* the argument target
    ipc,        \* the call's position
    isResult,   \* what e.Is(target) and errors.Is(e, target) returned
    \* ---- ChownRecursiveFrom: one call and the tree it walks ----
    inode,      \* inode -> owner: [uid, gid]
    inode0,     \* the owners when ChownRecursiveFrom was called
    uidArgs,    \* the parameter uidArgs: nil or [from, to]
    gidArgs,    \* the parameter gidArgs: nil or [from, to]
    pos,        \* the walk's position: the next entry filepath.WalkDir visits
    dirRead,    \* directory -> the owners when WalkDir read the directory
    cpc,        \* the call's position
    cerr,       \* the error ChownRecursiveFrom returned
    \* ---- ChownRecursiveFrom: several calls on one tree ----
    req,        \* the filter pair the calls are derived from
    plan,       \* the calls still to make, in order
    trees,      \* the owners each call that returned nil has left
    tree0       \* the owners before the first call

lockVars == <<procOf, pc, file, err, pending, calls, fdtable, lockOf, lockFile, cycles>>
renameVars == <<fs, fs0, oldPath, dstPath, newPath, rpc, lstatRes, evalRes, renameArg, fsAtRename, rerr>>
isVars == <<isRecv, isTarget, ipc, isResult>>
callVars == <<req, plan, trees, tree0>>
chownVars == <<inode, inode0, uidArgs, gidArgs, pos, dirRead, cpc, cerr, callVars>>

vars == <<lockVars, renameVars, isVars, chownVars>>

(***************************************************************************)
(* Bounds.                                                                 *)
(***************************************************************************)
NumCallers == 2
MaxUnlockCalls == 2
NumPaths == 4

Callers == 1..NumCallers
Pids == {1, 2}
\* Descriptor numbers: 0..2 are the standard streams; one per caller suffices,
\* each caller having at most one descriptor open.
FdNums == 3..(2 + NumCallers)
NoOfd == 0

(***************************************************************************)
(* Error values and the states of the components not in use                *)
(***************************************************************************)

\* The nil error.
Nil == [type |-> "nil"]

\* No path: os.Rename or EvalSymlinks was not called, or returned "".
NoPath == 0
NoEval == [called |-> FALSE]
NoEntry == [kind |-> "none", target |-> NoPath, id |-> NoPath]

\* No Lrename call is made.
RenameOff ==
    /\ fs = <<>> /\ fs0 = <<>>
    /\ oldPath = NoPath /\ dstPath = NoPath /\ newPath = NoPath
    /\ rpc = "off" /\ lstatRes = "" /\ evalRes = NoEval
    /\ renameArg = NoPath /\ fsAtRename = <<>> /\ rerr = Nil

\* No SymlinkResolutionError.Is call is made.
IsOff ==
    /\ isRecv = Nil /\ isTarget = Nil /\ ipc = "off"
    /\ isResult = [method |-> FALSE, errorsIs |-> FALSE]

\* A nil *ChownUIDArgs / *ChownGIDArgs.
NilArgs == [nil |-> TRUE]

\* No ChownRecursiveFrom call is made.
ChownOff ==
    /\ inode = <<>> /\ inode0 = <<>>
    /\ uidArgs = NilArgs /\ gidArgs = NilArgs
    /\ pos = 0 /\ dirRead = <<>> /\ cpc = "off" /\ cerr = Nil
    /\ req = <<>> /\ plan = <<>> /\ trees = <<>> /\ tree0 = <<>>

\* No LockDir call is made.
LockOff ==
    /\ procOf = <<>> /\ pc = <<>> /\ file = <<>> /\ err = <<>>
    /\ pending = <<>> /\ calls = <<>> /\ fdtable = <<>> /\ lockOf = <<>>
    /\ lockFile = FALSE /\ cycles = 0

(***************************************************************************)
(* LockDir                                                                 *)
(***************************************************************************)

\* A closed os.File: poll.FD.Sysfd is -1, so f.Fd() yields -1.
ClosedFd == 0 - 1

\* open(2) returns the lowest descriptor number free in the process.
LowestFree(tab) ==
    CHOOSE n \in FdNums : tab[n] = NoOfd /\ \A m \in FdNums : tab[m] = NoOfd => n <= m

\* flock(2): an exclusive lock is granted when no other open file description
\* holds a lock on the file, a shared one when no other holds it exclusively.
FlockGrantable(c, mode) ==
    IF mode = "EX"
    THEN \A d \in Callers \ {c} : lockOf[d] = "UN"
    ELSE \A d \in Callers \ {c} : lockOf[d] # "EX"

FlockModeShared == "SH"
\* The operation LockDir passes to flock: unix.LOCK_EX.
FlockMode == "EX"

\* f.Close(): close(2) frees the descriptor and, being the last reference to the
\* open file description, drops its flock; Sysfd becomes -1.
CloseFile(c) ==
    /\ fdtable' = [fdtable EXCEPT ![procOf[c]][file[c].sysfd] = NoOfd]
    /\ lockOf' = [lockOf EXCEPT ![c] = "UN"]
    /\ file' = [file EXCEPT ![c].sysfd = ClosedFd]

\* A caller enters LockDir(D).
CallLockDir(c) ==
    /\ pc[c] \in {"idle", "released"}
    /\ pc' = [pc EXCEPT ![c] = "open"]
    /\ calls' = [calls EXCEPT ![c] = 0]
    /\ UNCHANGED <<procOf, file, err, pending, fdtable, lockOf, lockFile, cycles>>
    /\ UNCHANGED <<renameVars, isVars, chownVars>>

\* os.OpenFile(lockPath, O_CREATE|O_RDWR, 0600) succeeds (with no descriptor
\* number free it fails, EMFILE).
OpenOk(c) ==
    /\ pc[c] = "open"
    /\ \E n \in FdNums : fdtable[procOf[c]][n] = NoOfd
    /\ LET n == LowestFree(fdtable[procOf[c]]) IN
        /\ fdtable' = [fdtable EXCEPT ![procOf[c]][n] = c]
        /\ file' = [file EXCEPT ![c] = [sysfd |-> n, rawfd |-> n]]
    /\ lockFile' = TRUE
    /\ pc' = [pc EXCEPT ![c] = "flock"]
    /\ UNCHANGED <<procOf, err, pending, calls, lockOf, cycles>>
    /\ UNCHANGED <<renameVars, isVars, chownVars>>

\* os.OpenFile fails: LockDir returns (nil, err).
OpenFail(c) ==
    /\ pc[c] = "open"
    /\ pc' = [pc EXCEPT ![c] = "idle"]
    /\ err' = [err EXCEPT ![c] = "EACCES"]
    /\ UNCHANGED <<procOf, file, pending, calls, fdtable, lockOf, lockFile, cycles>>
    /\ UNCHANGED <<renameVars, isVars, chownVars>>

\* unix.Flock(fd, LOCK_EX) returns once the lock is granted; LockDir returns
\* (unlock, nil).
FlockAcquire(c) ==
    /\ pc[c] = "flock"
    /\ FlockGrantable(c, FlockMode)
    /\ lockOf' = [lockOf EXCEPT ![c] = FlockMode]
    /\ pc' = [pc EXCEPT ![c] = "held"]
    /\ err' = [err EXCEPT ![c] = "nil"]
    /\ UNCHANGED <<procOf, file, pending, calls, fdtable, lockFile, cycles>>
    /\ UNCHANGED <<renameVars, isVars, chownVars>>

FlockFailLeaks(c) ==
    /\ pc[c] = "flock"
    /\ pc' = [pc EXCEPT ![c] = "idle"]
    /\ err' = [err EXCEPT ![c] = "EINTR"]
    /\ UNCHANGED <<procOf, file, fdtable, lockOf, pending, calls, lockFile, cycles>>
    /\ UNCHANGED <<renameVars, isVars, chownVars>>
\* unix.Flock fails with an OS error that is not contention (EINTR, ENOLCK):
\* the file is closed and LockDir returns (nil, err).
FlockFail(c) ==
    /\ pc[c] = "flock"
    /\ CloseFile(c)
    /\ pc' = [pc EXCEPT ![c] = "idle"]
    /\ err' = [err EXCEPT ![c] = "EINTR"]
    /\ UNCHANGED <<procOf, pending, calls, lockFile, cycles>>
    /\ UNCHANGED <<renameVars, isVars, chownVars>>

\* The caller calls the unlock closure (for the first time, or again).
CallUnlock(c) ==
    /\ pc[c] \in {"held", "released"}
    /\ calls[c] < MaxUnlockCalls
    /\ calls' = [calls EXCEPT ![c] = calls[c] + 1]
    /\ pc' = [pc EXCEPT ![c] = "un"]
    /\ UNCHANGED <<procOf, file, err, pending, fdtable, lockOf, lockFile, cycles>>
    /\ UNCHANGED <<renameVars, isVars, chownVars>>

UnlockFdCaptured(c) == file[c].rawfd
\* int(f.Fd()) as the closure evaluates it when it runs.
UnlockFd(c) == file[c].sysfd

\* unix.Flock(int(f.Fd()), LOCK_UN) succeeds: the open file description the
\* descriptor number names in this process is unlocked.
UnlockFlockOk(c) ==
    /\ pc[c] = "un"
    /\ UnlockFd(c) \in FdNums
    /\ fdtable[procOf[c]][UnlockFd(c)] # NoOfd
    /\ lockOf' = [lockOf EXCEPT ![fdtable[procOf[c]][UnlockFd(c)]] = "UN"]
    /\ pc' = [pc EXCEPT ![c] = "close"]
    /\ UNCHANGED <<procOf, file, err, pending, calls, fdtable, lockFile, cycles>>
    /\ UNCHANGED <<renameVars, isVars, chownVars>>

\* unix.Flock(int(f.Fd()), LOCK_UN) fails: EBADF when the number names no open
\* descriptor, or an OS error on an open one.
UnlockFlockFail(c) ==
    /\ pc[c] = "un"
    /\ pending' = [pending EXCEPT ![c] =
         IF UnlockFd(c) \in FdNums /\ fdtable[procOf[c]][UnlockFd(c)] # NoOfd
         THEN "EIO" ELSE "EBADF"]
    /\ pc' = [pc EXCEPT ![c] = "errclose"]
    /\ UNCHANGED <<procOf, file, err, calls, fdtable, lockOf, lockFile, cycles>>
    /\ UNCHANGED <<renameVars, isVars, chownVars>>

UnlockErrCloseMasks(c) ==
    /\ pc[c] = "errclose"
    /\ IF file[c].sysfd = ClosedFd
       THEN /\ UNCHANGED <<file, fdtable, lockOf>>
            /\ err' = [err EXCEPT ![c] = "ErrClosed"]
       ELSE /\ CloseFile(c)
            /\ \E r \in {"nil", "EIO"} :
                 err' = [err EXCEPT ![c] = IF r = "nil" THEN pending[c] ELSE r]
    /\ pending' = [pending EXCEPT ![c] = "nil"]
    /\ pc' = [pc EXCEPT ![c] = "released"]
    /\ UNCHANGED <<procOf, calls, lockFile, cycles>>
    /\ UNCHANGED <<renameVars, isVars, chownVars>>
\* _ = f.Close(); return err
UnlockErrClose(c) ==
    /\ pc[c] = "errclose"
    /\ IF file[c].sysfd = ClosedFd
       THEN UNCHANGED <<file, fdtable, lockOf>>
       ELSE CloseFile(c)
    /\ err' = [err EXCEPT ![c] = pending[c]]
    /\ pending' = [pending EXCEPT ![c] = "nil"]
    /\ pc' = [pc EXCEPT ![c] = "released"]
    /\ UNCHANGED <<procOf, calls, lockFile, cycles>>
    /\ UNCHANGED <<renameVars, isVars, chownVars>>

UnlockCloseAndRemove(c) ==
    /\ pc[c] = "close"
    /\ IF file[c].sysfd = ClosedFd
       THEN /\ UNCHANGED <<file, fdtable, lockOf, cycles>>
            /\ err' = [err EXCEPT ![c] = "ErrClosed"]
       ELSE /\ CloseFile(c)
            /\ \E r \in {"nil", "EIO"} :
                 /\ err' = [err EXCEPT ![c] = r]
                 /\ cycles' = IF r = "nil" /\ calls[c] = 1 /\ cycles < 2
                              THEN cycles + 1 ELSE cycles
    /\ pc' = [pc EXCEPT ![c] = "released"]
    /\ lockFile' = FALSE
    /\ UNCHANGED <<procOf, pending, calls>>
    /\ UNCHANGED <<renameVars, isVars, chownVars>>
\* return f.Close(): the descriptor is closed whatever close(2) reports.
UnlockClose(c) ==
    /\ pc[c] = "close"
    /\ IF file[c].sysfd = ClosedFd
       THEN /\ UNCHANGED <<file, fdtable, lockOf, cycles>>
            /\ err' = [err EXCEPT ![c] = "ErrClosed"]
       ELSE /\ CloseFile(c)
            /\ \E r \in {"nil", "EIO"} :
                 /\ err' = [err EXCEPT ![c] = r]
                 /\ cycles' = IF r = "nil" /\ calls[c] = 1 /\ cycles < 2
                              THEN cycles + 1 ELSE cycles
    /\ pc' = [pc EXCEPT ![c] = "released"]
    /\ UNCHANGED <<procOf, pending, calls, lockFile>>
    /\ UNCHANGED <<renameVars, isVars, chownVars>>

\* A release that forgets both steps.
unlockForgets(c) ==
    /\ pc[c] = "un"
    /\ pc' = [pc EXCEPT ![c] = "released"]
    /\ err' = [err EXCEPT ![c] = "nil"]
    /\ cycles' = IF calls[c] = 1 /\ cycles < 2 THEN cycles + 1 ELSE cycles
    /\ UNCHANGED <<procOf, file, pending, calls, fdtable, lockOf, lockFile>>
    /\ UNCHANGED <<renameVars, isVars, chownVars>>

\* The unlock closure: unlock the descriptor, then close the file.
unlock(c) ==
    \/ UnlockFlockOk(c)
    \/ UnlockFlockFail(c)
    \/ UnlockErrClose(c)
    \/ UnlockClose(c)

\* The closure's steps when the OS injects no error (EBADF on a closed file is
\* not injected: it is what the code gets for a repeated call).
unlockNoFault(c) ==
    /\ unlock(c)
    /\ pending'[c] # "EIO"
    /\ err'[c] # "EIO"

LockInit ==
    \* callers are interchangeable: the first one's process is named 1
    /\ procOf \in {f \in [Callers -> Pids] : f[1] = 1}
    /\ pc = [c \in Callers |-> "idle"]
    /\ file = [c \in Callers |-> [sysfd |-> ClosedFd, rawfd |-> ClosedFd]]
    /\ err = [c \in Callers |-> "nil"]
    /\ pending = [c \in Callers |-> "nil"]
    /\ calls = [c \in Callers |-> 0]
    /\ fdtable = [p \in Pids |-> [n \in FdNums |-> NoOfd]]
    /\ lockOf = [c \in Callers |-> "UN"]
    /\ lockFile \in BOOLEAN
    /\ cycles = 0
    /\ RenameOff
    /\ IsOff
    /\ ChownOff

LockNext ==
    \E c \in Callers :
        \/ CallLockDir(c)
        \/ OpenOk(c)
        \/ OpenFail(c)
        \/ FlockAcquire(c)
        \/ FlockFail(c)
        \/ CallUnlock(c)
        \/ unlock(c)

SpecLock == LockInit /\ [][LockNext]_vars

\* The same callers when no OS error occurs, each call in progress being
\* scheduled fairly: a granted flock returns, a running unlock closure runs on.
\* Whether and when a caller calls LockDir or unlock is the caller's choice.
LockNextNoFault ==
    \E c \in Callers :
        \/ CallLockDir(c)
        \/ OpenOk(c)
        \/ FlockAcquire(c)
        \/ CallUnlock(c)
        \/ unlockNoFault(c)

LiveLock ==
    /\ LockInit
    /\ [][LockNextNoFault]_vars
    /\ \A c \in Callers : WF_vars(FlockAcquire(c)) /\ WF_vars(unlockNoFault(c))

(***************************************************************************)
(* Claims about LockDir                                                    *)
(***************************************************************************)

\* The callers whose LockDir returned success and who have not called unlock.
Holders == {c \in Callers : pc[c] = "held"}

AtMostOneHolder == Cardinality(Holders) <= 1

\* While another caller holds the lock, a LockDir call leaves its flock only
\* with an OS error that is not contention, never with success.
NoReturnWhileHeld ==
    \A c \in Callers :
        (pc[c] = "flock" /\ pc'[c] # "flock" /\ Holders \ {c} # {})
            => (pc'[c] = "idle" /\ err'[c] = "EINTR")

\* C1: mutual exclusion of LockDir: at most one caller holds the lock on D in
\* every reachable state, and while it is held no other LockDir(D) call returns
\* with success or with an error caused by the contention.
C1_MutualExclusion == [](AtMostOneHolder) /\ [][NoReturnWhileHeld]_vars

C1_Witness ==
    \E a, b \in Callers : a # b /\ pc[a] = "held" /\ pc[b] = "flock" /\ lockOf[a] = "EX"

\* C2: liveness of LockDir: when A holds the lock, has called its unlock function
\* and B is blocked in LockDir(D), then B's LockDir eventually returns success,
\* as long as B stays the only caller inside LockDir (fair scheduling, no OS error).
C2_Liveness ==
    \A a, b \in Callers :
        (a # b /\ pc[a] = "un" /\ calls[a] = 1 /\ lockOf[a] = "EX" /\ pc[b] = "flock")
            ~> (pc[b] = "held" \/ \E d \in Callers \ {b} : pc[d] \in {"open", "flock"})

\* B holds the lock it was waiting for while A held it: B's descriptor was
\* opened while A's was still open, and A has released cleanly.
C2_Witness ==
    \E a, b \in Callers :
        /\ a # b /\ procOf[a] = procOf[b]
        /\ pc[b] = "held" /\ pc[a] = "released" /\ err[a] = "nil" /\ calls[a] = 1
        /\ file[b].sysfd > file[a].rawfd

\* A step of a second or later call of an unlock closure.
RepeatedUnlockStep(c) ==
    calls[c] >= 2 /\ pc[c] \in {"un", "close", "errclose"} /\ pc'[c] # pc[c]

\* C3: a repeated call of the unlock function is safe: it returns an error and
\* changes nothing of the lock state of D: no descriptor of the process is
\* closed, no open file description is unlocked, no other caller's file changes.
C3_RepeatedUnlockSafe ==
    [][\A c \in Callers :
         RepeatedUnlockStep(c) =>
            /\ fdtable' = fdtable
            /\ lockOf' = lockOf
            /\ lockFile' = lockFile
            /\ file' = file
            /\ (pc'[c] = "released" => err'[c] # "nil")]_vars

\* The old closure was called again after another caller of the same process
\* acquired the lock on the descriptor number the old handle once had.
C3_Witness ==
    \E c, d \in Callers :
        /\ c # d /\ procOf[c] = procOf[d]
        /\ calls[c] = 2 /\ pc[c] = "released" /\ err[c] = "EBADF"
        /\ pc[d] = "held" /\ lockOf[d] = "EX" /\ file[d].sysfd = file[c].rawfd

\* C4: after any number of completed clean acquire/release cycles on D, with no
\* handle outstanding, the next LockDir(D) takes the lock without blocking.
C4_NoResidualLock ==
    \A c \in Callers :
        (/\ pc[c] = "flock"
         /\ \A d \in Callers \ {c} :
               pc[d] = "idle" \/ (pc[d] = "released" /\ err[d] = "nil"))
            => ENABLED FlockAcquire(c)

C4_Witness ==
    \E c \in Callers : cycles = 2 /\ pc[c] = "held" /\ calls[c] = 0

\* The file .lock exists in D whenever a LockDir call has opened it.
LockFileLeft ==
    \A c \in Callers : pc[c] \in {"flock", "held", "un", "close", "errclose"} => lockFile

\* With .lock in D, a caller at flock(2) is granted the lock as soon as no
\* other open file description holds one: the file alone blocks nobody.
LockFileBlocksNobody ==
    \A c \in Callers :
        (lockFile /\ pc[c] = "flock" /\ \A d \in Callers \ {c} : lockOf[d] = "UN")
            => ENABLED FlockAcquire(c)

\* C15: the lock file persists: a LockDir call that opened it leaves .lock in
\* D, no step of LockDir or of the unlock function removes it once it exists,
\* and its existence alone never makes an acquire block.
C15_LockFilePersists ==
    /\ [](LockFileLeft /\ LockFileBlocksNobody)
    /\ [][lockFile => lockFile']_vars

\* .lock is there after a clean release by one caller and an acquisition of
\* another that failed, and a caller is taking the lock again.
C15_Witness ==
    /\ lockFile
    /\ \E a, b \in Callers :
         /\ a # b
         /\ pc[a] = "flock" /\ cycles >= 1
         /\ pc[b] = "idle" /\ err[b] = "EINTR"
         /\ \A d \in Callers : lockOf[d] = "UN"

\* The first step of the unlock function is the flock(LOCK_UN): it closes
\* nothing, and leads to the closing step, with the error to return when it
\* failed.
UnlockStepFirst(c) ==
    (pc[c] = "un" /\ pc'[c] # "un") =>
        /\ file' = file /\ fdtable' = fdtable
        /\ \/ pc'[c] = "close" /\ pending'[c] = "nil" /\ lockOf'[c] = "UN"
           \/ pc'[c] = "errclose" /\ pending'[c] \in {"EIO", "EBADF"} /\ lockOf' = lockOf

\* The second step is the close, after which the function returns: the
\* unlock step's error when there is one, whatever the close says, otherwise
\* what the close says.
CloseStepSecond(c) ==
    /\ (pc[c] = "errclose" /\ pc'[c] # "errclose") =>
          /\ pc'[c] = "released"
          /\ file'[c].sysfd = ClosedFd
          /\ err'[c] = pending[c] /\ pending[c] # "nil"
    /\ (pc[c] = "close" /\ pc'[c] # "close") =>
          /\ pc'[c] = "released"
          /\ file'[c].sysfd = ClosedFd
          /\ pending[c] = "nil"
          /\ err'[c] \in {"nil", "EIO", "ErrClosed"}

\* C16: the unlock function first unlocks, then closes, and returns the first
\* error met: the unlock step's error when unlocking fails, otherwise the
\* close's error, otherwise nil; a close error never replaces an unlock error.
C16_UnlockThenClose ==
    [][\A c \in Callers : UnlockStepFirst(c) /\ CloseStepSecond(c)]_vars

\* A second call of an unlock function returned the EBADF of its unlock step,
\* although the close of the file, closed already, failed as well.
C16_Witness ==
    \E c \in Callers :
        /\ pc[c] = "released" /\ calls[c] = 2
        /\ err[c] = "EBADF" /\ file[c].sysfd = ClosedFd

\* Caller c has no descriptor open on .lock and holds no lock.
NothingLeft(c) ==
    /\ file[c].sysfd = ClosedFd
    /\ lockOf[c] = "UN"
    /\ \A p \in Pids, n \in FdNums : fdtable[p][n] # c

\* C18: LockDir and the unlock function leave no open descriptor and no held
\* lock on any exit path: after LockDir returned an error (the open failed, or
\* the flock failed and the file was closed) the caller has nothing open and
\* no unlock function to call, and after a call of the unlock function
\* returned, with or without error, the handle holds neither lock nor
\* descriptor.
C18_NothingLeftOnExit ==
    \A c \in Callers :
        /\ pc[c] \in {"idle", "open", "released"} => NothingLeft(c)
        /\ pc[c] = "idle" => ~ ENABLED CallUnlock(c)

\* One caller's flock failed, another's first unlock call returned the error
\* of its unlock step.
C18_Witness ==
    \E c, d \in Callers :
        /\ c # d
        /\ pc[c] = "idle" /\ err[c] = "EINTR"
        /\ pc[d] = "released" /\ calls[d] = 1 /\ err[d] = "EIO"
        /\ file[d].rawfd \in FdNums

(***************************************************************************)
(* Lrename                                                                 *)
(***************************************************************************)

\* The names of one directory; a symbolic link's target is one of them.
Paths == 1..NumPaths

\* What a name can hold when Lrename is called: nothing, a file, a directory,
\* or a link to any name (to itself, to a missing one, to another link).
Shapes ==
    {[kind |-> k, target |-> NoPath] : k \in {"none", "file", "dir"}}
    \cup {[kind |-> "link", target |-> t] : t \in Paths}

\* The entry of shape sh created under the name p; id tells the entries (their
\* content) apart.
EntryAt(sh, p) ==
    IF sh.kind = "none" THEN NoEntry
    ELSE [kind |-> sh.kind, target |-> sh.target, id |-> p]

\* *PathError of os.Lstat, *LinkError of os.Rename, errors.New of EvalSymlinks.
PathError(op, errno) == [type |-> "PathError", op |-> op, errno |-> errno]
LinkError(errno) == [type |-> "LinkError", op |-> "rename", errno |-> errno]
TooManyLinks == [type |-> "errorString", msg |-> "EvalSymlinks: too many links"]

\* SymlinkResolutionError{msg: msg, err: cause}
SymlinkResolutionError(msg, cause) ==
    [type |-> "SymlinkResolutionError", msg |-> msg, err |-> cause]

\* os.Lstat(p): the entry itself is examined, a link is not followed; the
\* call can fail with another error than ENOENT whatever p holds (EACCES, EIO).
LstatOutcomes(f, p) ==
    {IF f[p].kind = "none" THEN "ENOENT"
     ELSE IF f[p].kind = "link" THEN "link" ELSE "notlink"}
    \cup {"EACCES"}

\* filepath.EvalSymlinks(p) follows the chain of links to an entry that is not
\* a link; it fails on a name that does not exist and on too many links (it
\* counts them, which on a loop ends the walk).
RECURSIVE WalkSymlinks(_, _, _)
WalkSymlinks(f, p, seen) ==
    IF f[p].kind = "none"
    THEN [called |-> TRUE, ok |-> FALSE, path |-> NoPath, err |-> PathError("lstat", "ENOENT")]
    ELSE IF f[p].kind # "link"
    THEN [called |-> TRUE, ok |-> TRUE, path |-> p, err |-> Nil]
    ELSE IF p \in seen
    THEN [called |-> TRUE, ok |-> FALSE, path |-> NoPath, err |-> TooManyLinks]
    ELSE WalkSymlinks(f, f[p].target, seen \cup {p})

EvalSymlinks(f, p) == WalkSymlinks(f, p, {})

\* EvalSymlinks can also fail with an OS error (EACCES).
EvalOutcomes(f, p) ==
    {EvalSymlinks(f, p)}
    \cup {[called |-> TRUE, ok |-> FALSE, path |-> NoPath, err |-> PathError("lstat", "EACCES")]}

\* os.Rename(old, new) when the OS reports no error of its own: it refuses an
\* existing directory as destination (EEXIST); rename(2) fails on a missing
\* source and on a directory over a non-directory, does nothing on old = new,
\* and otherwise moves the entry, replacing new.
Rename(f, old, new) ==
    IF f[old].kind = "none"
    THEN [err |-> LinkError("ENOENT"), fs |-> f]
    ELSE IF f[new].kind = "dir"
    THEN [err |-> LinkError("EEXIST"), fs |-> f]
    ELSE IF old = new
    THEN [err |-> Nil, fs |-> f]
    ELSE IF f[old].kind = "dir" /\ f[new].kind # "none"
    THEN [err |-> LinkError("ENOTDIR"), fs |-> f]
    ELSE [err |-> Nil, fs |-> [f EXCEPT ![new] = f[old], ![old] = NoEntry]]

\* os.Rename can also fail with an OS error (EACCES, EXDEV, EIO), changing nothing.
RenameOutcomes(f, old, new) ==
    {Rename(f, old, new)} \cup {[err |-> LinkError("EIO"), fs |-> f]}

\* A check that returns every stat error instead of renaming.
LrenameLstatReturnsErr ==
    /\ rpc = "lstat"
    /\ \E r \in LstatOutcomes(fs, newPath) :
         /\ lstatRes' = r
         /\ rpc' = IF r = "link" THEN "eval" ELSE IF r = "notlink" THEN "rename" ELSE "done"
         /\ rerr' = IF r \in {"link", "notlink"} THEN rerr ELSE PathError("lstat", r)
    /\ UNCHANGED <<fs, fs0, oldPath, dstPath, newPath, evalRes, renameArg, fsAtRename>>
    /\ UNCHANGED <<lockVars, isVars, chownVars>>

\* fi, err := os.Lstat(newPath); if err != nil || fi.Mode()&os.ModeSymlink == 0
LrenameLstat ==
    /\ rpc = "lstat"
    /\ \E r \in LstatOutcomes(fs, newPath) :
         /\ lstatRes' = r
         /\ rpc' = IF r = "link" THEN "eval" ELSE "rename"
    /\ UNCHANGED <<fs, fs0, oldPath, dstPath, newPath, evalRes, renameArg, fsAtRename, rerr>>
    /\ UNCHANGED <<lockVars, isVars, chownVars>>

\* return os.Rename(oldPath, newPath), at line 151 and at line 159.
LrenameRename ==
    /\ rpc = "rename"
    /\ \E out \in RenameOutcomes(fs, oldPath, newPath) :
         /\ fs' = out.fs
         /\ rerr' = out.err
    /\ renameArg' = newPath
    /\ fsAtRename' = fs
    /\ rpc' = "done"
    /\ UNCHANGED <<fs0, oldPath, dstPath, newPath, lstatRes, evalRes>>
    /\ UNCHANGED <<lockVars, isVars, chownVars>>

\* A resolution whose result is dropped: the rename goes onto the link.
LrenameEvalDropsResult ==
    /\ rpc = "eval"
    /\ \E r \in EvalOutcomes(fs, newPath) :
         /\ evalRes' = r
         /\ IF r.ok
            THEN rpc' = "rename" /\ UNCHANGED <<newPath, rerr>>
            ELSE /\ rerr' = SymlinkResolutionError("failed to resolve symlinks in Lrename", r.err)
                 /\ rpc' = "done" /\ UNCHANGED newPath
    /\ UNCHANGED <<fs, fs0, oldPath, dstPath, lstatRes, renameArg, fsAtRename>>
    /\ UNCHANGED <<lockVars, isVars, chownVars>>

\* A failed resolution that falls back to renaming over the link.
LrenameEvalFallsBack ==
    /\ rpc = "eval"
    /\ \E r \in EvalOutcomes(fs, newPath) :
         /\ evalRes' = r
         /\ newPath' = IF r.ok THEN r.path ELSE newPath
         /\ rpc' = "rename"
    /\ UNCHANGED <<fs, fs0, oldPath, dstPath, lstatRes, renameArg, fsAtRename, rerr>>
    /\ UNCHANGED <<lockVars, isVars, chownVars>>

\* newPath, err = filepath.EvalSymlinks(newPath); on an error Lrename returns
\* SymlinkResolutionError{msg: "failed to resolve symlinks in Lrename", err: err}.
LrenameEval ==
    /\ rpc = "eval"
    /\ \E r \in EvalOutcomes(fs, newPath) :
         /\ evalRes' = r
         /\ IF r.ok
            THEN newPath' = r.path /\ rpc' = "rename" /\ UNCHANGED rerr
            ELSE /\ rerr' = SymlinkResolutionError("failed to resolve symlinks in Lrename", r.err)
                 /\ rpc' = "done" /\ newPath' = r.path
    /\ UNCHANGED <<fs, fs0, oldPath, dstPath, lstatRes, renameArg, fsAtRename>>
    /\ UNCHANGED <<lockVars, isVars, chownVars>>

\* Lrename(oldPath, newPath) is called on any directory; the names being
\* interchangeable, oldPath is the first and newPath the first or the second.
RenameInit ==
    /\ \E sh \in [Paths -> Shapes] : fs = [p \in Paths |-> EntryAt(sh[p], p)]
    /\ fs0 = fs
    /\ oldPath = 1
    /\ dstPath \in {1, 2}
    /\ newPath = dstPath
    /\ rpc = "lstat"
    /\ lstatRes = "" /\ evalRes = NoEval /\ renameArg = NoPath /\ rerr = Nil
    /\ fsAtRename = <<>>
    /\ LockOff
    /\ IsOff
    /\ ChownOff

RenameNext ==
    \/ LrenameLstat
    \/ LrenameEval
    \/ LrenameRename

SpecRename == RenameInit /\ [][RenameNext]_vars

\* Another process works on the destination while Lrename is between its
\* stat of it and its os.Rename; what it creates is told apart by its id.
OtherId == NumPaths + 1

Interleaved == rpc \in {"eval", "rename"}

\* The other process creates the destination: a file, a directory or a link.
OtherCreates ==
    /\ Interleaved
    /\ fs[dstPath].kind = "none"
    /\ \E sh \in Shapes \ {[kind |-> "none", target |-> NoPath]} :
         fs' = [fs EXCEPT ![dstPath] = [kind |-> sh.kind, target |-> sh.target, id |-> OtherId]]
    /\ UNCHANGED <<fs0, oldPath, dstPath, newPath, rpc, lstatRes, evalRes, renameArg, fsAtRename, rerr>>
    /\ UNCHANGED <<lockVars, isVars, chownVars>>

\* The other process removes the destination.
OtherRemoves ==
    /\ Interleaved
    /\ fs[dstPath].kind # "none"
    /\ fs' = [fs EXCEPT ![dstPath] = NoEntry]
    /\ UNCHANGED <<fs0, oldPath, dstPath, newPath, rpc, lstatRes, evalRes, renameArg, fsAtRename, rerr>>
    /\ UNCHANGED <<lockVars, isVars, chownVars>>

\* The other process points the destination, a link, at another name.
OtherRetargets ==
    /\ Interleaved
    /\ fs[dstPath].kind = "link"
    /\ \E t \in Paths \ {fs[dstPath].target} :
         fs' = [fs EXCEPT ![dstPath] = [kind |-> "link", target |-> t, id |-> OtherId]]
    /\ UNCHANGED <<fs0, oldPath, dstPath, newPath, rpc, lstatRes, evalRes, renameArg, fsAtRename, rerr>>
    /\ UNCHANGED <<lockVars, isVars, chownVars>>

RenameRaceNext ==
    \/ RenameNext
    \/ OtherCreates
    \/ OtherRemoves
    \/ OtherRetargets

SpecRenameRace == RenameInit /\ [][RenameRaceNext]_vars

(***************************************************************************)
(* Claims about Lrename                                                    *)
(***************************************************************************)

\* What Lrename returned and left behind.
LrenameResult == [err |-> rerr, fs |-> fs]

\* The stat of dst succeeded and dst, a link, resolved to the real path R.
ResolvedTo(R) ==
    /\ rpc = "done"
    /\ fs0[dstPath].kind = "link" /\ lstatRes = "link"
    /\ evalRes = EvalSymlinks(fs0, dstPath) /\ evalRes.ok /\ evalRes.path = R

ResolutionFailed ==
    /\ rpc = "done"
    /\ fs0[dstPath].kind = "link" /\ lstatRes = "link"
    /\ evalRes.called /\ ~evalRes.ok

\* C6: when dst is a symbolic link whose resolution fails, Lrename returns the
\* SymlinkResolutionError wrapping the resolution's error, os.Rename is not
\* called, and every entry (src, dst) is as it was.
C6_ResolutionFailure ==
    ResolutionFailed =>
        /\ rerr = SymlinkResolutionError("failed to resolve symlinks in Lrename", evalRes.err)
        /\ renameArg = NoPath
        /\ fs = fs0

\* dst is a dangling link, src a file.
C6_Witness ==
    /\ ResolutionFailed
    /\ oldPath # dstPath /\ fs0[oldPath].kind = "file"
    /\ fs0[fs0[dstPath].target].kind = "none"
    /\ evalRes.err = PathError("lstat", "ENOENT")
    /\ rerr.type = "SymlinkResolutionError"

\* C7: when the stat of dst fails with another error than "does not exist",
\* Lrename returns that stat error unwrapped and does not call os.Rename.
C7_StatErrorReturned ==
    (rpc = "done" /\ lstatRes = "EACCES") =>
        /\ rerr = PathError("lstat", "EACCES")
        /\ renameArg = NoPath
        /\ fs = fs0

\* C8: when dst does not exist or is not a symbolic link, Lrename has the
\* result and leaves the directory of rename(src, dst): no resolution is made,
\* no SymlinkResolutionError returned, and when the rename succeeds (src being
\* another name than dst) dst holds src's prior entry and src no longer exists.
C8_PlainRename ==
    (rpc = "done" /\ fs0[dstPath].kind # "link") =>
        /\ renameArg = dstPath
        /\ LrenameResult \in RenameOutcomes(fs0, oldPath, dstPath)
        /\ evalRes = NoEval
        /\ rerr.type # "SymlinkResolutionError"
        /\ (rerr = Nil /\ oldPath # dstPath) =>
               (fs[dstPath] = fs0[oldPath] /\ fs[oldPath] = NoEntry)

\* dst did not exist and now holds src's file.
C8_Witness ==
    /\ rpc = "done" /\ rerr = Nil /\ lstatRes = "ENOENT"
    /\ oldPath # dstPath /\ fs0[dstPath].kind = "none" /\ fs0[oldPath].kind = "file"
    /\ fs[dstPath] = fs0[oldPath] /\ fs[oldPath] = NoEntry

(***************************************************************************)
(* SymlinkResolutionError.Is                                               *)
(***************************************************************************)

\* The messages and causes a SymlinkResolutionError value can carry.
Msgs == {"", "failed to resolve symlinks in Lrename", "another message"}
Causes == {Nil, PathError("lstat", "ENOENT"), TooManyLinks}

SymlinkResolutionErrors == {SymlinkResolutionError(m, c) : m \in Msgs, c \in Causes}

\* The errors a caller can pass as target.
Targets == SymlinkResolutionErrors \cup Causes

\* func (e SymlinkResolutionError) Is(target error) bool: the interface value
\* target equals the struct value SymlinkResolutionError{} when its dynamic
\* type is SymlinkResolutionError and its fields are the zero values.
Is(e, target) == target = SymlinkResolutionError("", Nil)

\* errors.Is(e, target): e == target, or e.Is(target), or the same along
\* e.Unwrap().
RECURSIVE ErrorsIs(_, _)
ErrorsIs(e, target) ==
    IF e = Nil \/ target = Nil
    THEN e = target
    ELSE \/ e = target
         \/ (e.type = "SymlinkResolutionError" /\ Is(e, target))
         \/ (e.type = "SymlinkResolutionError" /\ ErrorsIs(e.err, target))

IsCall ==
    /\ ipc = "call"
    /\ isResult' = [method |-> Is(isRecv, isTarget), errorsIs |-> ErrorsIs(isRecv, isTarget)]
    /\ ipc' = "done"
    /\ UNCHANGED <<isRecv, isTarget>>
    /\ UNCHANGED <<lockVars, renameVars, chownVars>>

IsInit ==
    /\ isRecv \in SymlinkResolutionErrors
    /\ isTarget \in Targets
    /\ ipc = "call"
    /\ isResult = [method |-> FALSE, errorsIs |-> FALSE]
    /\ LockOff
    /\ RenameOff
    /\ ChownOff

IsNext == IsCall

SpecIs == IsInit /\ [][IsNext]_vars

\* C9: for any two SymlinkResolutionError values e1 and e2, whatever their
\* message and cause, the kind check of e1 against e2 holds (by the method, or
\* at least by errors.Is); for a target of another type the method does not hold.
C9_KindEquality ==
    ipc = "done" =>
        /\ isTarget.type = "SymlinkResolutionError" => (isResult.method /\ isResult.errorsIs)
        /\ isTarget.type # "SymlinkResolutionError" => ~isResult.method

(***************************************************************************)
(* ChownRecursiveFrom                                                      *)
(***************************************************************************)

\* os.Lchown's "do not change that value".
NoChange == -1

\* The tree under root in the order filepath.WalkDir visits it (lexical,
\* parents first), with the inode and the parent directory of each entry:
\* root/c and root/d/e are hard links to root/a, root/l is a symbolic link
\* to ext, which lies outside root.
Tree ==
    << [name |-> "root",     kind |-> "dir",  ino |-> 1, parent |-> 0, target |-> 0],
       [name |-> "root/a",   kind |-> "file", ino |-> 2, parent |-> 1, target |-> 0],
       [name |-> "root/c",   kind |-> "file", ino |-> 2, parent |-> 1, target |-> 0],
       [name |-> "root/d",   kind |-> "dir",  ino |-> 3, parent |-> 1, target |-> 0],
       [name |-> "root/d/e", kind |-> "file", ino |-> 2, parent |-> 4, target |-> 0],
       [name |-> "root/l",   kind |-> "link", ino |-> 4, parent |-> 1, target |-> 5] >>

TreeEntries == DOMAIN Tree
\* The inodes: those of the tree and the one of ext.
Inodes == {Tree[e].ino : e \in TreeEntries} \cup {Tree[e].target : e \in {x \in TreeEntries : Tree[x].kind = "link"}}

\* The owner ids of the files before the call, and those a filter can name:
\* ids being interchangeable, FromUID and FromGID are the first.
OwnerIds == {1000, 2000}
FilterArgs == {[from |-> 1000, to |-> t] : t \in {1000, 2000, 3000}}

\* fmt.Errorf("...: %w", err) and fmt.Errorf("...")
Wrapped(msg, cause) == [type |-> "wrapError", msg |-> msg, err |-> cause]
ErrorString(msg) == [type |-> "errorString", msg |-> msg]

Chown(ino, e, uid, gid) ==
    [ino EXCEPT ![IF Tree[e].kind = "link" THEN Tree[e].target ELSE Tree[e].ino] =
        [uid |-> IF uid = NoChange THEN @.uid ELSE uid,
         gid |-> IF gid = NoChange THEN @.gid ELSE gid]]
\* os.Lchown(path, uid, gid) on entry e: the entry's own inode is changed, a
\* link is not followed; NoChange leaves the value.
Lchown(ino, e, uid, gid) ==
    [ino EXCEPT ![Tree[e].ino] =
        [uid |-> IF uid = NoChange THEN @.uid ELSE uid,
         gid |-> IF gid = NoChange THEN @.gid ELSE gid]]

\* d.Info() and info.Sys(): the lstat of the entry itself, made when Info is
\* called or, for an entry whose type the directory read did not tell, when
\* WalkDir read its directory (fs.DirEntry.Info allows both); root's is made
\* when the walk starts.
StatOutcomes(ino, e) ==
    {ino[Tree[e].ino]}
    \cup (IF Tree[e].parent = 0 THEN {} ELSE {dirRead[Tree[e].parent][Tree[e].ino]})

\* uidArgs != nil && stat.Uid == uidArgs.FromUID
UidMatches(st) == uidArgs # NilArgs /\ st.uid = uidArgs.from

GidMatchesInsideUid(st) == UidMatches(st) /\ gidArgs # NilArgs /\ st.gid = gidArgs.from
\* gidArgs != nil && stat.Gid == gidArgs.FromGID
GidMatches(st) == gidArgs # NilArgs /\ st.gid = gidArgs.from

LchownUidAndGid(ino, e) == Lchown(ino, e, uidArgs.to, uidArgs.to)
\* os.Lchown(path, int(uidArgs.ToUID), -1)
LchownUid(ino, e) == Lchown(ino, e, uidArgs.to, NoChange)

\* os.Lchown(path, -1, int(gidArgs.ToGID))
LchownGid(ino, e) == Lchown(ino, e, NoChange, gidArgs.to)

VisitWithRollback(ino, e, st) ==
    LET ino1 == IF UidMatches(st) THEN LchownUid(ino, e) ELSE ino
        ino2 == IF GidMatches(st) THEN LchownGid(ino1, e) ELSE ino1
    IN  {[inode |-> ino, err |-> PathError("lstat", "ENOENT")]}
        \cup (IF UidMatches(st)
              THEN {[inode |-> ino,
                     err |-> Wrapped("failed to change ownership", PathError("lchown", "EPERM"))]}
              ELSE {})
        \cup (IF GidMatches(st)
              THEN {[inode |-> ino,
                     err |-> Wrapped("failed to change group ownership", PathError("lchown", "EPERM"))]}
              ELSE {})
        \cup {[inode |-> ino2, err |-> Nil]}
\* What one call of the walk function on entry e can do: fail to read the
\* entry's metadata; fail at the owner change; fail at the group change, the
\* owner change already made; or make the changes that match and return nil.
VisitWith(ino, e, st) ==
    LET ino1 == IF UidMatches(st) THEN LchownUid(ino, e) ELSE ino
        ino2 == IF GidMatches(st) THEN LchownGid(ino1, e) ELSE ino1
    IN  {[inode |-> ino, err |-> PathError("lstat", "ENOENT")]}
        \cup (IF UidMatches(st)
              THEN {[inode |-> ino,
                     err |-> Wrapped("failed to change ownership", PathError("lchown", "EPERM"))]}
              ELSE {})
        \cup (IF GidMatches(st)
              THEN {[inode |-> ino1,
                     err |-> Wrapped("failed to change group ownership", PathError("lchown", "EPERM"))]}
              ELSE {})
        \cup {[inode |-> ino2, err |-> Nil]}

VisitOutcomes(ino, e) == UNION {VisitWith(ino, e, st) : st \in StatOutcomes(ino, e)}

ChownSkipCheck ==
    /\ cpc = "start"
    /\ cpc' = "walk"
    /\ UNCHANGED <<inode, inode0, uidArgs, gidArgs, pos, dirRead, cerr, callVars>>
    /\ UNCHANGED <<lockVars, renameVars, isVars>>
\* if uidArgs == nil && gidArgs == nil { return fmt.Errorf(...) }
ChownCheckArgs ==
    /\ cpc = "start"
    /\ IF uidArgs = NilArgs /\ gidArgs = NilArgs
       THEN /\ cerr' = ErrorString("ChownRecursiveFrom: at least one of uidArgs or gidArgs must be non-nil")
            /\ cpc' = "done"
       ELSE /\ cpc' = "walk"
            /\ UNCHANGED cerr
    /\ UNCHANGED <<inode, inode0, uidArgs, gidArgs, pos, dirRead, callVars>>
    /\ UNCHANGED <<lockVars, renameVars, isVars>>

\* The walk function is called with err != nil, when WalkDir cannot stat root
\* or cannot read the directory just visited: it returns err, the walk ends.
ChownWalkErr ==
    /\ cpc = "walk"
    /\ \/ pos = 1
       \/ (pos > 1 /\ Tree[pos - 1].kind = "dir")
    /\ cerr' = PathError(IF pos = 1 THEN "lstat" ELSE "open", "EACCES")
    /\ cpc' = "done"
    /\ UNCHANGED <<inode, inode0, uidArgs, gidArgs, pos, dirRead, callVars>>
    /\ UNCHANGED <<lockVars, renameVars, isVars>>

\* The walk function is called on the next entry; an error ends the walk.
\* After a directory, WalkDir reads its entries.
ChownVisit ==
    /\ cpc = "walk"
    /\ pos \in TreeEntries
    /\ \E out \in VisitOutcomes(inode, pos) :
         /\ inode' = out.inode
         /\ dirRead' = IF Tree[pos].kind = "dir" /\ out.err = Nil
                       THEN [dirRead EXCEPT ![pos] = out.inode] ELSE dirRead
         /\ IF out.err = Nil
            THEN pos' = pos + 1 /\ UNCHANGED <<cpc, cerr>>
            ELSE cerr' = out.err /\ cpc' = "done" /\ UNCHANGED pos
    /\ UNCHANGED <<inode0, uidArgs, gidArgs, callVars>>
    /\ UNCHANGED <<lockVars, renameVars, isVars>>

\* Every entry was visited: filepath.WalkDir returns nil.
ChownReturn ==
    /\ cpc = "walk"
    /\ pos = Len(Tree) + 1
    /\ cerr' = Nil
    /\ cpc' = "done"
    /\ UNCHANGED <<inode, inode0, uidArgs, gidArgs, pos, dirRead, callVars>>
    /\ UNCHANGED <<lockVars, renameVars, isVars>>

ChownInit ==
    /\ inode \in [Inodes -> [uid : OwnerIds, gid : OwnerIds]]
    /\ inode0 = inode
    /\ uidArgs \in {NilArgs} \cup FilterArgs
    /\ gidArgs \in {NilArgs} \cup FilterArgs
    /\ pos = 1
    /\ dirRead = [e \in TreeEntries |-> inode]
    /\ cpc = "start"
    /\ cerr = Nil
    /\ req = <<>> /\ plan = <<>> /\ trees = <<>> /\ tree0 = <<>>
    /\ LockOff
    /\ RenameOff
    /\ IsOff

ChownNext ==
    \/ ChownCheckArgs
    \/ ChownWalkErr
    \/ ChownVisit
    \/ ChownReturn

SpecChown == ChownInit /\ [][ChownNext]_vars

\* A caller with a filter pair (u, g) in mind makes, on one tree, each call
\* after the one before has returned nil: the call with both filters, the same
\* call again, and, each time on the tree as it was before the first call,
\* the call with u alone followed by the call with g alone, and the two in
\* the other order.
CallPlan(u, g) ==
    << [uid |-> u,       gid |-> g,       restore |-> FALSE],
       [uid |-> u,       gid |-> g,       restore |-> FALSE],
       [uid |-> u,       gid |-> NilArgs, restore |-> TRUE],
       [uid |-> NilArgs, gid |-> g,       restore |-> FALSE],
       [uid |-> NilArgs, gid |-> g,       restore |-> TRUE],
       [uid |-> u,       gid |-> NilArgs, restore |-> FALSE] >>

\* The call has returned nil and the caller makes the next one; the new walk
\* starts by reading root.
ChownCallNext ==
    /\ cpc = "done"
    /\ cerr = Nil
    /\ plan # <<>>
    /\ LET call == Head(plan)
           tree == IF call.restore THEN tree0 ELSE inode
       IN  /\ trees' = Append(trees, inode)
           /\ inode' = tree
           /\ inode0' = tree
           /\ dirRead' = [e \in TreeEntries |-> tree]
           /\ uidArgs' = call.uid
           /\ gidArgs' = call.gid
    /\ plan' = Tail(plan)
    /\ pos' = 1
    /\ cpc' = "start"
    /\ UNCHANGED <<cerr, req, tree0>>
    /\ UNCHANGED <<lockVars, renameVars, isVars>>

ChownCallsInit ==
    /\ inode \in [Inodes -> [uid : OwnerIds, gid : OwnerIds]]
    /\ inode0 = inode
    /\ tree0 = inode
    /\ req \in [uid : {NilArgs} \cup FilterArgs, gid : {NilArgs} \cup FilterArgs]
    /\ uidArgs = req.uid
    /\ gidArgs = req.gid
    /\ plan = Tail(CallPlan(req.uid, req.gid))
    /\ trees = <<>>
    /\ pos = 1
    /\ dirRead = [e \in TreeEntries |-> inode]
    /\ cpc = "start"
    /\ cerr = Nil
    /\ LockOff
    /\ RenameOff
    /\ IsOff

ChownCallsNext ==
    \/ ChownNext
    \/ ChownCallNext

SpecChownCalls == ChownCallsInit /\ [][ChownCallsNext]_vars

(***************************************************************************)
(* Claims about ChownRecursiveFrom                                         *)
(***************************************************************************)

\* C10: ChownRecursiveFrom(root, {FromUID, ToUID}, nil) that returns nil: every
\* entry under root, root included, whose UID was FromUID has UID ToUID, every
\* other entry keeps its UID, and the GID of every entry is unchanged.
C10_UidFilterOnly ==
    (cpc = "done" /\ cerr = Nil /\ uidArgs # NilArgs /\ gidArgs = NilArgs) =>
        \A e \in TreeEntries :
            LET i == Tree[e].ino IN
            /\ inode0[i].uid = uidArgs.from => inode[i].uid = uidArgs.to
            /\ inode0[i].uid # uidArgs.from => inode[i].uid = inode0[i].uid
            /\ inode[i].gid = inode0[i].gid

\* A tree with owners FromUID and another, the hard-linked file among the
\* former, a new ToUID: some entries changed, some kept.
C10_Witness ==
    /\ cpc = "done" /\ cerr = Nil /\ uidArgs # NilArgs /\ gidArgs = NilArgs
    /\ uidArgs.to \notin OwnerIds
    /\ inode0[2].uid = uidArgs.from /\ inode[2].uid = uidArgs.to
    /\ \E e \in TreeEntries :
         inode0[Tree[e].ino].uid # uidArgs.from /\ inode[Tree[e].ino] = inode0[Tree[e].ino]

\* The ownership a call leaves on an inode owned o before it: each value is
\* replaced when it is the one its filter looks for.
NewOwner(o) ==
    [uid |-> IF uidArgs # NilArgs /\ o.uid = uidArgs.from THEN uidArgs.to ELSE o.uid,
     gid |-> IF gidArgs # NilArgs /\ o.gid = gidArgs.from THEN gidArgs.to ELSE o.gid]

\* One successful call of the walk function, on entry pos.
VisitedOk == cpc = "walk" /\ pos \in TreeEntries /\ pos' = pos + 1

BothFilters == uidArgs # NilArgs /\ gidArgs # NilArgs

\* The visit of an entry, both filters given: its UID becomes ToUID exactly
\* when it is FromUID, its GID becomes ToGID exactly when it is FromGID, and
\* no other inode is touched.
IndependentVisit ==
    (BothFilters /\ VisitedOk) =>
        /\ inode'[Tree[pos].ino] = NewOwner(inode[Tree[pos].ino])
        /\ \A j \in Inodes \ {Tree[pos].ino} : inode'[j] = inode[j]

\* The call returned nil, both filters given: every entry has the ownership
\* the two independent decisions give it.
IndependentResult ==
    (BothFilters /\ cpc = "done" /\ cerr = Nil) =>
        \A e \in TreeEntries : inode[Tree[e].ino] = NewOwner(inode0[Tree[e].ino])

\* C11: with a UID filter and a GID filter the two changes of an entry are
\* decided independently: its UID is changed if and only if it is FromUID and
\* its GID if and only if it is FromGID, at every visit and in the tree the
\* call leaves.
C11_IndependentChanges == [](IndependentResult) /\ [][IndependentVisit]_vars

\* A call with two filters that change something returned nil on a tree with
\* an entry matching only the GID condition (new GID, same UID), one matching
\* only the UID condition (new UID, same GID) and one matching neither.
C11_Witness ==
    /\ BothFilters /\ cpc = "done" /\ cerr = Nil
    /\ uidArgs.to # uidArgs.from /\ gidArgs.to # gidArgs.from
    /\ \E e \in TreeEntries : LET i == Tree[e].ino IN
         /\ inode0[i].uid # uidArgs.from /\ inode0[i].gid = gidArgs.from
         /\ inode[i] = [uid |-> inode0[i].uid, gid |-> gidArgs.to]
    /\ \E e \in TreeEntries : LET i == Tree[e].ino IN
         /\ inode0[i].uid = uidArgs.from /\ inode0[i].gid # gidArgs.from
         /\ inode[i] = [uid |-> uidArgs.to, gid |-> inode0[i].gid]
    /\ \E e \in TreeEntries : LET i == Tree[e].ino IN
         /\ inode0[i].uid # uidArgs.from /\ inode0[i].gid # gidArgs.from
         /\ inode[i] = inode0[i]

\* The symbolic links of the tree and the inodes they point at.
LinkEntries == {e \in TreeEntries : Tree[e].kind = "link"}
LinkTargets == {Tree[e].target : e \in LinkEntries}

\* The walk function called on a symbolic link changes at most the link's own
\* inode.
LinkVisitChangesLinkOnly ==
    (cpc = "walk" /\ pos \in LinkEntries) =>
        \A j \in Inodes \ {Tree[pos].ino} : inode'[j] = inode[j]

\* C12: symbolic links are never followed: the visit of a link changes the
\* ownership of the link entry only, and the target of a link, lying outside
\* root, keeps its ownership through the whole call.
C12_NeverFollowsSymlinks ==
    /\ [](\A t \in LinkTargets : inode[t] = inode0[t])
    /\ [][LinkVisitChangesLinkOnly]_vars

\* A call that returned nil changed the owner of a matching link, whose
\* target matches the filter as well and kept its owner.
C12_Witness ==
    /\ cpc = "done" /\ cerr = Nil /\ uidArgs # NilArgs /\ uidArgs.to # uidArgs.from
    /\ \E e \in LinkEntries :
         /\ inode0[Tree[e].ino].uid = uidArgs.from
         /\ inode[Tree[e].ino].uid = uidArgs.to
         /\ inode0[Tree[e].target].uid = uidArgs.from
         /\ inode[Tree[e].target].uid = uidArgs.from

NoFilter == uidArgs = NilArgs /\ gidArgs = NilArgs

PreconditionError ==
    ErrorString("ChownRecursiveFrom: at least one of uidArgs or gidArgs must be non-nil")

\* C13: ChownRecursiveFrom(root, nil, nil) never starts the walk, whether
\* root could be read or not: no entry is visited or read, every inode keeps
\* its ownership, and the call returns the precondition error.
C13_NilFiltersTouchNothing ==
    NoFilter =>
        /\ cpc \in {"start", "done"}
        /\ pos = 1
        /\ inode = inode0
        /\ dirRead = [e \in TreeEntries |-> inode0]
        /\ cpc = "done" => cerr = PreconditionError

\* The call without filters returned, on a tree every filter over the first
\* id would have matched.
C13_Witness ==
    /\ NoFilter /\ cpc = "done" /\ cerr = PreconditionError
    /\ \A i \in Inodes : inode[i] = [uid |-> 1000, gid |-> 1000]

\* The walk ended with an error, met at entry pos (for a directory that could
\* not be read, the entry WalkDir would have visited next).
Aborted == cpc = "done" /\ cerr \notin {Nil, PreconditionError}

OwnerChangeFailed(e) == e.type = "wrapError" /\ e.msg = "failed to change ownership"
GroupChangeFailed(e) == e.type = "wrapError" /\ e.msg = "failed to change group ownership"

\* The inodes of the entries visited before the failing one.
InodesBefore(p) == {Tree[e].ino : e \in {x \in TreeEntries : x < p}}

\* The step that ends the walk with an error: the error returned is the one
\* just met, a failed change wrapped under the message of its kind; nothing is
\* undone, and of the failing entry only the owner may have been changed, when
\* it is the group change that failed.
AbortStep ==
    (cpc = "walk" /\ cpc' = "done" /\ cerr' # Nil) =>
        /\ pos' = pos
        /\ cerr'.type = "wrapError" =>
              /\ cerr'.err = PathError("lchown", "EPERM")
              /\ OwnerChangeFailed(cerr') \/ GroupChangeFailed(cerr')
        /\ OwnerChangeFailed(cerr') => uidArgs # NilArgs
        /\ GroupChangeFailed(cerr') => gidArgs # NilArgs
        /\ IF GroupChangeFailed(cerr')
           THEN inode' = [inode EXCEPT ![Tree[pos].ino].uid = NewOwner(inode[Tree[pos].ino]).uid]
           ELSE inode' = inode

\* After the error: the entries visited before have their new ownership, the
\* failing entry has its new owner and its old group when the group change
\* failed and its old ownership otherwise, and an inode that no entry up to
\* the failing one names has the ownership it had before the call.
AbortedTree ==
    Aborted =>
        /\ \A e \in TreeEntries :
             e < pos => inode[Tree[e].ino] = NewOwner(inode0[Tree[e].ino])
        /\ (pos \in TreeEntries /\ Tree[pos].ino \notin InodesBefore(pos)) =>
             inode[Tree[pos].ino] =
                 IF GroupChangeFailed(cerr)
                 THEN [uid |-> NewOwner(inode0[Tree[pos].ino]).uid, gid |-> inode0[Tree[pos].ino].gid]
                 ELSE inode0[Tree[pos].ino]
        /\ \A j \in Inodes \ InodesBefore(pos + 1) : inode[j] = inode0[j]

\* C14 as stated: after the first error no entry that comes after the failing
\* one in the walk order has another ownership than before the call.
C14_LaterEntriesUnchanged ==
    Aborted => \A e \in TreeEntries : e > pos => inode[Tree[e].ino] = inode0[Tree[e].ino]

\* C14, amended: the walk ends at the first error and returns it, nothing is
\* rolled back, and the entries after the failing one are not visited: such an
\* entry has another ownership only when it is a hard link to the inode of an
\* entry visited up to the failing one.
C14_AbortWithoutRollback == [](AbortedTree) /\ [][AbortStep]_vars

\* The group change of an entry failed after its owner was changed, an entry
\* before it got its new owner, and a later entry that matches kept its own.
C14_Witness ==
    /\ Aborted /\ GroupChangeFailed(cerr) /\ uidArgs # NilArgs /\ uidArgs.to # uidArgs.from
    /\ pos \in TreeEntries /\ pos > 1 /\ Tree[pos].ino \notin InodesBefore(pos)
    /\ inode0[Tree[pos].ino].uid = uidArgs.from /\ inode[Tree[pos].ino].uid = uidArgs.to
    /\ inode[Tree[pos].ino].gid = gidArgs.from
    /\ inode0[1].uid = uidArgs.from /\ inode[1].uid = uidArgs.to
    /\ \E e \in TreeEntries :
         /\ e > pos
         /\ inode0[Tree[e].ino].uid = uidArgs.from
         /\ inode[Tree[e].ino] = inode0[Tree[e].ino]

(***************************************************************************)
(* Claims about several calls of ChownRecursiveFrom                        *)
(***************************************************************************)

BothRequested == req.uid # NilArgs /\ req.gid # NilArgs

\* The planned calls have all returned nil.
AllCallsDone == plan = <<>> /\ cpc = "done" /\ cerr = Nil

\* C17: no call failing, the call with both filters (it left trees[1]), the
\* call with the UID filter alone followed by the one with the GID filter
\* alone (trees[4]) and the two in the other order (the final tree), each
\* started on the same tree, leave every inode, hard-linked or not, with the
\* same UID and GID.
C17_TogetherOrAlone ==
    BothRequested =>
        /\ Len(trees) >= 4 => trees[4] = trees[1]
        /\ AllCallsDone => inode = trees[1]

\* All calls returned nil; the filters change the owner of some inode and the
\* group of the hard-linked one, so that the call with the UID filter alone
\* left another tree than the call with both.
C17_Witness ==
    /\ BothRequested /\ AllCallsDone
    /\ req.uid.to # req.uid.from /\ req.gid.to # req.gid.from
    /\ tree0[2] = [uid |-> req.uid.from, gid |-> req.gid.from]
    /\ inode[2] = [uid |-> req.uid.to, gid |-> req.gid.to]
    /\ \E i \in Inodes : tree0[i].uid # req.uid.from /\ tree0[i].gid = req.gid.from
    /\ trees[3] # trees[1]
    /\ trees[5] # trees[1]

\* C19: a second call with the same filters, made on the tree the first call
\* left (trees[1]) and returning nil, leaves it as it is (trees[2]), whatever
\* the tree, the hard-linked inode included, and whatever the filters, one
\* alone, both, or with equal From and To.
C19_Idempotent ==
    Len(trees) >= 2 => trees[2] = trees[1]

\* The first call changed the hard-linked inode and the link, the second
\* call returned nil.
C19_Witness ==
    /\ Len(trees) >= 2
    /\ req.uid # NilArgs /\ req.uid.to # req.uid.from
    /\ tree0[2].uid = req.uid.from /\ trees[1][2].uid = req.uid.to
    /\ tree0[4].uid = req.uid.from /\ trees[1][4].uid = req.uid.to
    /\ trees[2][2].uid = req.uid.to

(***************************************************************************)
(* Claims about Lrename and another process                                *)
(***************************************************************************)

\* os.Rename was called after a stat of dst that succeeded or found nothing.
RenamePerformed == rpc = "done" /\ renameArg # NoPath /\ lstatRes # "EACCES"

\* In the directory f, the rename goes onto no symbolic link, and onto the
\* path dst resolves to when it resolves.
OntoResolvedIn(f) ==
    /\ f[renameArg].kind # "link"
    /\ EvalSymlinks(f, dstPath).ok => renameArg = EvalSymlinks(f, dstPath).path

\* C20: whatever another process does to the destination between Lrename's
\* stat, its resolution and its rename, the entry os.Rename is called onto is
\* no symbolic link at the moment of the call, and it is the path the
\* destination resolves to at that moment.
C20_RenameOntoResolvedAtRename ==
    RenamePerformed => OntoResolvedIn(fsAtRename)

====
